---------------------------- MODULE Spec2Model ----------------------------
(***************************************************************************)
(* A model of MOONLAPSED/aptop: the AtomDataclass value type of main.py    *)
(* (construction, binary encode/decode, arithmetic, equality, ordering)    *)
(* and FormalTheory.compare; the construction of a FormalTheory and its    *)
(* case_base; the SimpleTokenStack and the ThreadSafeContextManager of     *)
(* src/abc/concrete.py, the latter shared by the threads that call         *)
(* PosixPlayground.process_file.                                           *)
(*                                                                         *)
(* Python objects are tagged records.  The field t is the name of the      *)
(* object's Python type; the other field names differ from type to type:   *)
(*   int      [t |-> "int",   n |-> Int]                                    *)
(*   bool     [t |-> "bool",  b |-> BOOLEAN]                                *)
(*   float    [t |-> "float", num |-> Int, den |-> Nat \ {0}]  (num/den in  *)
(*            lowest terms: the double nearest to that rational)           *)
(*   str      [t |-> "str",   s |-> sequence of code points]               *)
(*   bytes    [t |-> "bytes", s |-> sequence of 0..255]                     *)
(*   list     [t |-> "list",  items |-> sequence of objects]               *)
(*   dict     [t |-> "dict",  pairs |-> sequence of <<key, value>>, in      *)
(*            insertion order, keys pairwise unequal]                      *)
(*   None     [t |-> "NoneType"]                                            *)
(*   AtomDataclass  [t |-> "AtomDataclass", value |-> object,               *)
(*                   data_type |-> sequence of code points]                *)
(* A Python str is the sequence of its code points, so that str.lower and  *)
(* the UTF-8 codec are computed and not assumed.                           *)
(*                                                                         *)
(*   FormalTheory   [t |-> "FormalTheory", case_base |-> function from      *)
(*                   keys (code point sequences) to function objects]      *)
(*   SimpleTokenStack  [t |-> "SimpleTokenStack", _stack |-> list]          *)
(*   ThreadSafeContextManager  [t |-> "ThreadSafeContextManager",           *)
(*                   lock |-> BOOLEAN], TRUE when the threading.Lock is    *)
(*                   locked                                                *)
(*   function [t |-> "function", name |-> STRING]: two function objects    *)
(*            are the same object exactly when their names are equal       *)
(* A call's outcome is a record [exc |-> name of the exception raised or   *)
(* "none", ret |-> the object returned].                                   *)
(***************************************************************************)
EXTENDS Integers, Sequences, FiniteSets, TLC

VARIABLES a, b, result, kwargs, theory, token_space, calls,
          manager, threads, files

vars == <<a, b, result, kwargs, theory, token_space, calls,
          manager, threads, files>>

\* The variables of the operations on atoms.
atomVars == <<a, b, result>>

\* The variables of a FormalTheory under construction: the constructor's
\* keyword arguments and the instance built.
theoryVars == <<kwargs, theory>>

\* The variables of a SimpleTokenStack in use: the instance and the calls
\* made on it so far, each with its argument and its outcome.
stackVars == <<token_space, calls>>

\* The variables of a ThreadSafeContextManager shared by threads: the
\* instance, each thread's place in process_file, and the number of calls of
\* process_file still to be made.
lockVars == <<manager, threads, files>>

\* The variables the operations on atoms leave alone.
nonAtomVars == <<theoryVars, stackVars, lockVars>>

\* ------------------------------------------------------------ bounds

\* The longest list of atoms handed to FormalTheory.compare.
MaxCompareLen == 2

\* The largest tag length a crafted decode buffer declares in its header.
MaxHeader == 10

\* The number of calls made on one SimpleTokenStack.
MaxCalls == 5

\* The number of threads sharing one ThreadSafeContextManager.
NumThreads == 3

\* The number of calls of process_file the threads make between them.
MaxFiles == 4

\* ------------------------------------------------------- Python objects

PyInt(n) == [t |-> "int", n |-> n]

PyBool(v) == [t |-> "bool", b |-> v]

PyFloat(num, den) == [t |-> "float", num |-> num, den |-> den]

PyStr(s) == [t |-> "str", s |-> s]

PyBytes(s) == [t |-> "bytes", s |-> s]

PyList(items) == [t |-> "list", items |-> items]

PyDict(pairs) == [t |-> "dict", pairs |-> pairs]

PyNone == [t |-> "NoneType"]

Ok(obj) == [exc |-> "none", ret |-> obj]

Raise(name) == [exc |-> name, ret |-> PyNone]

\* The source's string literals and the type names, as code points.
Lit_string == <<115, 116, 114, 105, 110, 103>>

Lit_integer == <<105, 110, 116, 101, 103, 101, 114>>

Lit_float == <<102, 108, 111, 97, 116>>

Lit_boolean == <<98, 111, 111, 108, 101, 97, 110>>

Lit_list == <<108, 105, 115, 116>>

Lit_dictionary == <<100, 105, 99, 116, 105, 111, 110, 97, 114, 121>>

Lit_unknown == <<117, 110, 107, 110, 111, 119, 110>>

Lit_str == <<115, 116, 114>>

Lit_int == <<105, 110, 116>>

Lit_bool == <<98, 111, 111, 108>>

Lit_dict == <<100, 105, 99, 116>>

Lit_NoneType == <<78, 111, 110, 101, 84, 121, 112, 101>>

\* type(obj).__name__
TypeName(obj) ==
  CASE obj.t = "str" -> Lit_str
    [] obj.t = "int" -> Lit_int
    [] obj.t = "float" -> Lit_float
    [] obj.t = "bool" -> Lit_bool
    [] obj.t = "list" -> Lit_list
    [] obj.t = "dict" -> Lit_dict
    [] obj.t = "NoneType" -> Lit_NoneType

\* str.lower(), on the ASCII range the type names use.
StrLower(s) ==
  [i \in 1..Len(s) |-> IF s[i] >= 65 /\ s[i] <= 90 THEN s[i] + 32 ELSE s[i]]

\* ------------------------------------------------------- Python numbers

IsNum(x) == x.t \in {"int", "bool", "float"}

IsIntLike(x) == x.t \in {"int", "bool"}

\* A number's value as a fraction <<numerator, denominator>>, denominator > 0.
NumOf(x) ==
  CASE x.t = "int" -> <<x.n, 1>>
    [] x.t = "bool" -> <<IF x.b THEN 1 ELSE 0, 1>>
    [] x.t = "float" -> <<x.num, x.den>>

Abs(n) == IF n < 0 THEN -n ELSE n

RECURSIVE Gcd(_, _)
Gcd(m, n) == IF n = 0 THEN m ELSE Gcd(n, m % n)

\* The float of the fraction num/den (den # 0), in lowest terms.
FloatOf(num, den) ==
  LET g == Gcd(Abs(num), Abs(den))
      sgn == IF den < 0 THEN -1 ELSE 1
  IN PyFloat(sgn * (num \div g), Abs(den) \div g)

\* The result of an arithmetic operator on two numbers: an int when both are
\* int or bool, a float otherwise.
NumResult(x, y, num, den) ==
  IF IsIntLike(x) /\ IsIntLike(y) THEN PyInt(num \div den) ELSE FloatOf(num, den)

\* ------------------------------------------------ Python ==, <, <=, >, >=

RECURSIVE PyEq(_, _)
PyEq(x, y) ==
  CASE IsNum(x) /\ IsNum(y) ->
         NumOf(x)[1] * NumOf(y)[2] = NumOf(y)[1] * NumOf(x)[2]
    [] x.t = "str" /\ y.t = "str" -> x.s = y.s
    [] x.t = "list" /\ y.t = "list" ->
         /\ Len(x.items) = Len(y.items)
         /\ \A i \in 1..Len(x.items) : PyEq(x.items[i], y.items[i])
    [] x.t = "dict" /\ y.t = "dict" ->
         /\ Len(x.pairs) = Len(y.pairs)
         /\ \A i \in 1..Len(x.pairs) : \E j \in 1..Len(y.pairs) :
              /\ PyEq(x.pairs[i][1], y.pairs[j][1])
              /\ PyEq(x.pairs[i][2], y.pairs[j][2])
    [] x.t = "NoneType" /\ y.t = "NoneType" -> TRUE
    [] OTHER -> FALSE

IntCompare(op, m, n) ==
  CASE op = "<" -> m < n
    [] op = "<=" -> m <= n
    [] op = ">" -> m > n
    [] op = ">=" -> m >= n

\* The first index at which two sequences of code points differ, or 0.
FirstDiff(s, u) ==
  LET D == {i \in 1..Len(s) : i <= Len(u) /\ s[i] # u[i]}
  IN IF D = {} THEN 0 ELSE CHOOSE i \in D : \A j \in D : i <= j

\* x op y for an ordering operator: a bool, or TypeError.
RECURSIVE PyCompare(_, _, _)
PyCompare(op, x, y) ==
  CASE IsNum(x) /\ IsNum(y) ->
         Ok(PyBool(IntCompare(op, NumOf(x)[1] * NumOf(y)[2],
                                  NumOf(y)[1] * NumOf(x)[2])))
    [] x.t = "str" /\ y.t = "str" ->
         LET i == FirstDiff(x.s, y.s)
         IN IF i = 0 THEN Ok(PyBool(IntCompare(op, Len(x.s), Len(y.s))))
            ELSE Ok(PyBool(IntCompare(op, x.s[i], y.s[i])))
    [] x.t = "list" /\ y.t = "list" ->
         LET D == {i \in 1..Len(x.items) :
                     i <= Len(y.items) /\ ~PyEq(x.items[i], y.items[i])}
         IN IF D = {}
            THEN Ok(PyBool(IntCompare(op, Len(x.items), Len(y.items))))
            ELSE LET i == CHOOSE k \in D : \A j \in D : k <= j
                 IN PyCompare(op, x.items[i], y.items[i])
    [] OTHER -> Raise("TypeError")

\* ------------------------------------------------------ Python + - * /

RECURSIVE Repeat(_, _)
Repeat(s, n) == IF n <= 0 THEN <<>> ELSE s \o Repeat(s, n - 1)

PyAdd(x, y) ==
  CASE IsNum(x) /\ IsNum(y) ->
         Ok(NumResult(x, y, NumOf(x)[1] * NumOf(y)[2] + NumOf(y)[1] * NumOf(x)[2],
                      NumOf(x)[2] * NumOf(y)[2]))
    [] x.t = "str" /\ y.t = "str" -> Ok(PyStr(x.s \o y.s))
    [] x.t = "list" /\ y.t = "list" -> Ok(PyList(x.items \o y.items))
    [] OTHER -> Raise("TypeError")

PySub(x, y) ==
  CASE IsNum(x) /\ IsNum(y) ->
         Ok(NumResult(x, y, NumOf(x)[1] * NumOf(y)[2] - NumOf(y)[1] * NumOf(x)[2],
                      NumOf(x)[2] * NumOf(y)[2]))
    [] OTHER -> Raise("TypeError")

PyMul(x, y) ==
  CASE IsNum(x) /\ IsNum(y) ->
         Ok(NumResult(x, y, NumOf(x)[1] * NumOf(y)[1], NumOf(x)[2] * NumOf(y)[2]))
    [] IsIntLike(x) /\ y.t = "str" -> Ok(PyStr(Repeat(y.s, NumOf(x)[1])))
    [] x.t = "str" /\ IsIntLike(y) -> Ok(PyStr(Repeat(x.s, NumOf(y)[1])))
    [] IsIntLike(x) /\ y.t = "list" -> Ok(PyList(Repeat(y.items, NumOf(x)[1])))
    [] x.t = "list" /\ IsIntLike(y) -> Ok(PyList(Repeat(x.items, NumOf(y)[1])))
    [] OTHER -> Raise("TypeError")

\* True division: always a float, ZeroDivisionError on a zero divisor.
PyTrueDiv(x, y) ==
  CASE IsNum(x) /\ IsNum(y) ->
         IF NumOf(y)[1] = 0 THEN Raise("ZeroDivisionError")
         ELSE Ok(FloatOf(NumOf(x)[1] * NumOf(y)[2], NumOf(x)[2] * NumOf(y)[1]))
    [] OTHER -> Raise("TypeError")

\* Python's exception classes, as far as the model needs them: the classes an
\* exception of this name is an instance of.
ExceptionClasses(name) ==
  CASE name = "ZeroDivisionError" -> {"ZeroDivisionError", "ArithmeticError", "Exception"}
    [] name = "UnicodeDecodeError" -> {"UnicodeDecodeError", "UnicodeError", "ValueError", "Exception"}
    [] name = "FrozenInstanceError" -> {"FrozenInstanceError", "AttributeError", "Exception"}
    [] name = "struct.error" -> {"struct.error", "Exception"}
    [] name = "none" -> {}
    [] OTHER -> {name, "Exception"}

\* ------------------------------------------------------------ UTF-8

Utf8Char(c) ==
  IF c < 128 THEN <<c>>
  ELSE IF c < 2048 THEN <<192 + (c \div 64), 128 + (c % 64)>>
  ELSE IF c < 65536
    THEN <<224 + (c \div 4096), 128 + ((c \div 64) % 64), 128 + (c % 64)>>
  ELSE <<240 + (c \div 262144), 128 + ((c \div 4096) % 64),
         128 + ((c \div 64) % 64), 128 + (c % 64)>>

RECURSIVE Utf8Bytes(_)
Utf8Bytes(s) == IF s = <<>> THEN <<>> ELSE Utf8Char(Head(s)) \o Utf8Bytes(Tail(s))

\* str.encode('utf-8'): a lone surrogate cannot be encoded.
Utf8Encode(s) ==
  IF \E i \in 1..Len(s) : s[i] >= 55296 /\ s[i] <= 57343
  THEN Raise("UnicodeEncodeError")
  ELSE Ok(PyBytes(Utf8Bytes(s)))

IsCont(bs, i) == i <= Len(bs) /\ bs[i] >= 128 /\ bs[i] <= 191

\* The code points of bs from index i on, or <<-1>> at the first ill-formed
\* sequence (overlong forms, surrogates and values above U+10FFFF included).
RECURSIVE Utf8From(_, _)
Utf8From(bs, i) ==
  IF i > Len(bs) THEN <<>>
  ELSE LET c == bs[i]
           n == IF c < 128 THEN 1
                ELSE IF c >= 194 /\ c <= 223 /\ IsCont(bs, i + 1) THEN 2
                ELSE IF /\ c >= 224 /\ c <= 239
                        /\ IsCont(bs, i + 1) /\ IsCont(bs, i + 2)
                        /\ (c = 224 => bs[i + 1] >= 160)
                        /\ (c = 237 => bs[i + 1] <= 159) THEN 3
                ELSE IF /\ c >= 240 /\ c <= 244
                        /\ IsCont(bs, i + 1) /\ IsCont(bs, i + 2) /\ IsCont(bs, i + 3)
                        /\ (c = 240 => bs[i + 1] >= 144)
                        /\ (c = 244 => bs[i + 1] <= 143) THEN 4
                ELSE 0
           cp == CASE n = 1 -> c
                   [] n = 2 -> (c - 192) * 64 + (bs[i + 1] - 128)
                   [] n = 3 -> (c - 224) * 4096 + (bs[i + 1] - 128) * 64
                               + (bs[i + 2] - 128)
                   [] n = 4 -> (c - 240) * 262144 + (bs[i + 1] - 128) * 4096
                               + (bs[i + 2] - 128) * 64 + (bs[i + 3] - 128)
                   [] OTHER -> -1
       IN IF n = 0 THEN <<-1>>
          ELSE LET rest == Utf8From(bs, i + n)
               IN IF rest # <<>> /\ rest[Len(rest)] = -1 THEN <<-1>>
                  ELSE <<cp>> \o rest

\* bytes.decode('utf-8')
Utf8Decode(bs) ==
  LET s == Utf8From(bs, 1)
  IN IF s # <<>> /\ s[Len(s)] = -1 THEN Raise("UnicodeDecodeError")
     ELSE Ok(PyStr(s))

\* ----------------------------------------------------------- struct

\* data[i:j] on a bytes object: the bounds are clamped, never an error.
Slice(s, i, j) ==
  LET lo == IF i > Len(s) THEN Len(s) ELSE i
      hi == IF j > Len(s) THEN Len(s) ELSE j
  IN SubSeq(s, lo + 1, hi)

\* The four big-endian bytes of n, 0 <= n < 2^31.
BE32(n) == <<n \div 16777216, (n \div 65536) % 256, (n \div 256) % 256, n % 256>>

\* struct.pack('!I', n)
PackU32(n) == IF n < 0 THEN Raise("struct.error") ELSE Ok(PyBytes(BE32(n)))

\* struct.unpack('!I', bs)[0]; the value is computed for headers below 2^31.
UnpackU32(bs) ==
  IF Len(bs) # 4 THEN Raise("struct.error")
  ELSE Ok(PyInt(bs[1] * 16777216 + bs[2] * 65536 + bs[3] * 256 + bs[4]))

\* struct.pack('!q', n), for -2^31 < n < 2^31: two's complement over 8 bytes.
PackQ(n) ==
  IF n >= 0 THEN Ok(PyBytes(<<0, 0, 0, 0>> \o BE32(n)))
  ELSE LET m == BE32(-n - 1)
       IN Ok(PyBytes(<<255, 255, 255, 255>> \o [i \in 1..4 |-> 255 - m[i]]))

\* struct.unpack('!q', bs)[0]; the value is computed for the payloads that are
\* the sign extension of a 32-bit integer.
UnpackQ(bs) ==
  IF Len(bs) # 8 THEN Raise("struct.error")
  ELSE LET lo == SubSeq(bs, 5, 8)
       IN CASE (\A i \in 1..4 : bs[i] = 0) /\ bs[5] < 128 ->
                 Ok(PyInt(lo[1] * 16777216 + lo[2] * 65536 + lo[3] * 256 + lo[4]))
            [] (\A i \in 1..4 : bs[i] = 255) /\ bs[5] >= 128 ->
                 Ok(PyInt(-1 - ((255 - lo[1]) * 16777216 + (255 - lo[2]) * 65536
                                + (255 - lo[3]) * 256 + (255 - lo[4]))))

\* struct.pack('?', v): one byte, by the truth of v.
PackBool(v) == Ok(PyBytes(<<IF v THEN 1 ELSE 0>>))

\* struct.unpack('?', bs)[0]
UnpackBool(bs) ==
  IF Len(bs) # 1 THEN Raise("struct.error") ELSE Ok(PyBool(bs[1] # 0))

RECURSIVE Pow2(_)
Pow2(n) == IF n = 0 THEN 1 ELSE 2 * Pow2(n - 1)

\* <<p, q, e>> with p/q * 2^e the given fraction and 1 <= p/q < 2.
RECURSIVE Normalise(_, _, _)
Normalise(p, q, e) ==
  IF p >= 2 * q THEN Normalise(p, 2 * q, e + 1)
  ELSE IF p < q THEN Normalise(2 * p, q, e - 1)
  ELSE <<p, q, e>>

\* The digits of r/q (0 <= r < q < 2^23) in the bases given, then the remainder.
RECURSIVE FracDigits(_, _, _)
FracDigits(r, q, bases) ==
  IF bases = <<>> THEN <<r>>
  ELSE <<(r * Head(bases)) \div q>>
       \o FracDigits((r * Head(bases)) % q, q, Tail(bases))

\* The digits plus one in their last place; the carry out of the top is dropped.
RECURSIVE Increment(_, _)
Increment(digits, bases) ==
  IF digits = <<>> THEN <<>>
  ELSE LET k == Len(digits)
       IN IF digits[k] + 1 < bases[k] THEN [digits EXCEPT ![k] = digits[k] + 1]
          ELSE Increment(SubSeq(digits, 1, k - 1), SubSeq(bases, 1, k - 1)) \o <<0>>

\* The 52 mantissa bits as a half byte followed by six bytes.
MantissaBases == <<16, 256, 256, 256, 256, 256, 256>>

\* struct.pack('!d', f): IEEE-754 binary64, big-endian, of the double nearest
\* to num/den (round half to even), for the normal range.
PackDouble(f) ==
  IF f.num = 0 THEN Ok(PyBytes([i \in 1..8 |-> 0]))
  ELSE LET nrm == Normalise(Abs(f.num), f.den, 0)
           fd == FracDigits(nrm[1] - nrm[2], nrm[2], MantissaBases)
           mant == SubSeq(fd, 1, 7)
           rem == fd[8]
           up == 2 * rem > nrm[2] \/ (2 * rem = nrm[2] /\ mant[7] % 2 = 1)
           carry == up /\ \A i \in 1..7 : mant[i] = MantissaBases[i] - 1
           m2 == IF up THEN Increment(mant, MantissaBases) ELSE mant
           ex == nrm[3] + 1023 + (IF carry THEN 1 ELSE 0)
           sgn == IF f.num < 0 THEN 128 ELSE 0
       IN Ok(PyBytes(<<sgn + (ex \div 16), (ex % 16) * 16 + m2[1]>>
                     \o SubSeq(m2, 2, 7)))

\* struct.unpack('!d', bs)[0]; the value is computed for zero and for the
\* normal doubles whose low 32 mantissa bits are zero and whose exponent is
\* within 2^-20 .. 2^10.
UnpackDouble(bs) ==
  IF Len(bs) # 8 THEN Raise("struct.error")
  ELSE LET sgn == IF bs[1] >= 128 THEN -1 ELSE 1
           ex == (bs[1] % 128) * 16 + (bs[2] \div 16)
           m20 == (bs[2] % 16) * 65536 + bs[3] * 256 + bs[4]
           x == ex - 1043
       IN CASE ex = 0 /\ m20 = 0 /\ (\A i \in 5..8 : bs[i] = 0) -> Ok(PyFloat(0, 1))
            [] ex > 0 /\ x >= 0 /\ x <= 10 /\ (\A i \in 5..8 : bs[i] = 0) ->
                 Ok(FloatOf(sgn * (1048576 + m20) * Pow2(x), 1))
            [] ex > 0 /\ x < 0 /\ x >= -40 /\ (\A i \in 5..8 : bs[i] = 0) ->
                 LET g == Gcd(1048576 + m20, 1048576)
                     n1 == (1048576 + m20) \div g
                     d1 == 1048576 \div g
                 IN IF x >= -20 THEN Ok(FloatOf(sgn * (1048576 + m20), Pow2(-x)))
                    ELSE Ok(FloatOf(sgn * n1, d1 * Pow2(-x - 20)))

\* ------------------------------------------------------ AtomDataclass

\* Frozen without frozen=True: assignments to fields go through.
Frozen_Off == FALSE

\* @dataclass(frozen=True): the generated __setattr__ raises.
Frozen == TRUE

\* Sets data_type from the value's type name, lower-cased.
__post_init__(self) == [self EXCEPT !.data_type = StrLower(TypeName(self.value))]

\* The constructor: the field value, then __post_init__.
AtomDataclass(value) ==
  __post_init__([t |-> "AtomDataclass", value |-> value, data_type |-> <<>>])

\* The static mapping from a type name to a kind; nothing in the source calls it.
_determine_data_type(data) ==
  LET data_type == TypeName(data)
  IN IF data_type = Lit_str THEN Lit_string
     ELSE IF data_type = Lit_int THEN Lit_integer
     ELSE IF data_type = Lit_float THEN Lit_float
     ELSE IF data_type = Lit_bool THEN Lit_boolean
     ELSE IF data_type = Lit_list THEN Lit_list
     ELSE IF data_type = Lit_dict THEN Lit_dictionary
     ELSE Lit_unknown

\* self.<name> = v on an instance: refused when the dataclass is frozen.
SetValue(self, v) ==
  IF Frozen THEN [exc |-> "FrozenInstanceError", self |-> self]
  ELSE [exc |-> "none", self |-> [self EXCEPT !.value = v]]

RECURSIVE _encode_data(_)
RECURSIVE EncodeElements(_)
RECURSIVE EncodePairs(_)

\* The list branch: every element's _encode_data, joined.
EncodeElements(items) ==
  IF items = <<>> THEN Ok(PyBytes(<<>>))
  ELSE LET h == _encode_data(AtomDataclass(Head(items)))
       IN IF h.exc # "none" THEN h
          ELSE LET r == EncodeElements(Tail(items))
               IN IF r.exc # "none" THEN r ELSE Ok(PyBytes(h.ret.s \o r.ret.s))

\* The dictionary branch: every key's and value's _encode_data, joined.
EncodePairs(pairs) ==
  IF pairs = <<>> THEN Ok(PyBytes(<<>>))
  ELSE LET k == _encode_data(AtomDataclass(Head(pairs)[1]))
       IN IF k.exc # "none" THEN k
          ELSE LET v == _encode_data(AtomDataclass(Head(pairs)[2]))
               IN IF v.exc # "none" THEN v
                  ELSE LET r == EncodePairs(Tail(pairs))
                       IN IF r.exc # "none" THEN r
                          ELSE Ok(PyBytes(k.ret.s \o v.ret.s \o r.ret.s))

_encode_data(self) ==
  IF self.data_type = Lit_string THEN Utf8Encode(self.value.s)
  ELSE IF self.data_type = Lit_integer THEN PackQ(self.value.n)
  ELSE IF self.data_type = Lit_float THEN PackDouble(self.value)
  ELSE IF self.data_type = Lit_boolean THEN PackBool(self.value.b)
  ELSE IF self.data_type = Lit_list THEN EncodeElements(self.value.items)
  ELSE IF self.data_type = Lit_dictionary THEN EncodePairs(self.value.pairs)
  ELSE Raise("ValueError")

\* The header written: struct.pack('!I', len(data_bytes)).
EncodeHeader(data_type_bytes, data_bytes) == PackU32(Len(data_bytes))

encode(self) ==
  LET data_type_bytes == Utf8Encode(self.data_type)
  IN IF data_type_bytes.exc # "none" THEN data_type_bytes
     ELSE LET data_bytes == _encode_data(self)
          IN IF data_bytes.exc # "none" THEN data_bytes
             ELSE LET header == EncodeHeader(data_type_bytes.ret.s, data_bytes.ret.s)
                  IN IF header.exc # "none" THEN header
                     ELSE Ok(PyBytes(header.ret.s \o data_type_bytes.ret.s
                                     \o data_bytes.ret.s))

\* value[k] = v on a dict.
DictSet(pairs, k, v) ==
  IF \E i \in 1..Len(pairs) : PyEq(pairs[i][1], k)
  THEN [i \in 1..Len(pairs) |-> IF PyEq(pairs[i][1], k) THEN <<pairs[i][1], v>>
                                ELSE pairs[i]]
  ELSE Append(pairs, <<k, v>>)

RECURSIVE decode(_, _)
RECURSIVE DecodeList(_, _, _)
RECURSIVE DecodeDict(_, _, _)

\* The list branch's loop, from offset on, with the elements read so far.
DecodeList(data_bytes, offset, items) ==
  IF ~(offset < Len(data_bytes)) THEN Ok(PyList(items))
  ELSE LET element == AtomDataclass(PyNone)
           r == decode(element, Slice(data_bytes, offset, Len(data_bytes)))
       IN IF r.exc # "none" THEN Raise(r.exc)
          ELSE LET nxt == PyAdd(PyInt(offset), r.ret)
               IN IF nxt.exc # "none" THEN Raise(nxt.exc)
                  ELSE DecodeList(data_bytes, nxt.ret.n, Append(items, r.self.value))

\* The dictionary branch's loop.
DecodeDict(data_bytes, offset, pairs) ==
  IF ~(offset < Len(data_bytes)) THEN Ok(PyDict(pairs))
  ELSE LET k == decode(AtomDataclass(PyNone), Slice(data_bytes, offset, Len(data_bytes)))
       IN IF k.exc # "none" THEN Raise(k.exc)
          ELSE LET o1 == PyAdd(PyInt(offset), k.ret)
               IN IF o1.exc # "none" THEN Raise(o1.exc)
                  ELSE LET v == decode(AtomDataclass(PyNone),
                                       Slice(data_bytes, o1.ret.n, Len(data_bytes)))
                       IN IF v.exc # "none" THEN Raise(v.exc)
                          ELSE LET o2 == PyAdd(PyInt(o1.ret.n), v.ret)
                               IN IF o2.exc # "none" THEN Raise(o2.exc)
                                  ELSE DecodeDict(data_bytes, o2.ret.n,
                                                  DictSet(pairs, k.self.value, v.self.value))

\* The header as decode reads it: the length of the type tag.
DecodeHeader(data) == UnpackU32(Slice(data, 0, 4))

\* decode up to its assignments: the value and the data_type read from data,
\* or the exception raised on the way.
DecodeValue(data) ==
  LET h == DecodeHeader(data)
  IN IF h.exc # "none" THEN h
     ELSE LET header_length == h.ret.n
              data_type == Utf8Decode(Slice(data, 4, 4 + header_length))
              data_bytes == Slice(data, 4 + header_length, Len(data))
          IN IF data_type.exc # "none" THEN data_type
             ELSE IF data_type.ret.s = Lit_string THEN Utf8Decode(data_bytes)
             ELSE IF data_type.ret.s = Lit_integer THEN UnpackQ(data_bytes)
             ELSE IF data_type.ret.s = Lit_float THEN UnpackDouble(data_bytes)
             ELSE IF data_type.ret.s = Lit_boolean THEN UnpackBool(data_bytes)
             ELSE IF data_type.ret.s = Lit_list THEN DecodeList(data_bytes, 0, <<>>)
             ELSE IF data_type.ret.s = Lit_dictionary THEN DecodeDict(data_bytes, 0, <<>>)
             ELSE Raise("ValueError")

\* The data_type decode read, once DecodeValue(data) did not raise.
DecodedType(data) ==
  Utf8Decode(Slice(data, 4, 4 + DecodeHeader(data).ret.n)).ret.s

\* decode: [exc, ret, self], self being the instance as the call leaves it.
decode(self, data) ==
  LET r == DecodeValue(data)
  IN IF r.exc # "none" THEN [exc |-> r.exc, ret |-> PyNone, self |-> self]
     ELSE LET s == SetValue(self, r.ret)
          IN IF s.exc # "none" THEN [exc |-> s.exc, ret |-> PyNone, self |-> self]
             ELSE [exc |-> "none", ret |-> PyNone,
                   self |-> [s.self EXCEPT !.data_type = DecodedType(data)]]

IsAtom(obj) == obj.t = "AtomDataclass"

__add__(self, other) ==
  LET r == PyAdd(self.value, other.value)
  IN IF r.exc # "none" THEN r ELSE Ok(AtomDataclass(r.ret))

__sub__(self, other) ==
  LET r == PySub(self.value, other.value)
  IN IF r.exc # "none" THEN r ELSE Ok(AtomDataclass(r.ret))

__mul__(self, other) ==
  LET r == PyMul(self.value, other.value)
  IN IF r.exc # "none" THEN r ELSE Ok(AtomDataclass(r.ret))

\* __truediv__ with a zero divisor answered by an infinity, as IEEE division.
__truediv__Inf(self, other) ==
  IF IsNum(self.value) /\ IsNum(other.value) /\ NumOf(other.value)[1] = 0
  THEN Ok(AtomDataclass(PyFloat(1, 0)))
  ELSE LET r == PyTrueDiv(self.value, other.value)
       IN IF r.exc # "none" THEN r ELSE Ok(AtomDataclass(r.ret))

__truediv__(self, other) ==
  LET r == PyTrueDiv(self.value, other.value)
  IN IF r.exc # "none" THEN r ELSE Ok(AtomDataclass(r.ret))

__eq__(self, other) ==
  IF IsAtom(other) THEN Ok(PyBool(PyEq(self.value, other.value)))
  ELSE Ok(PyBool(FALSE))

__lt__(self, other) ==
  IF IsAtom(other) THEN PyCompare("<", self.value, other.value)
  ELSE Ok(PyBool(FALSE))

__le__(self, other) ==
  IF IsAtom(other) THEN PyCompare("<=", self.value, other.value)
  ELSE Ok(PyBool(FALSE))

__gt__(self, other) ==
  IF IsAtom(other) THEN PyCompare(">", self.value, other.value)
  ELSE Ok(PyBool(FALSE))

__ge__(self, other) ==
  IF IsAtom(other) THEN PyCompare(">=", self.value, other.value)
  ELSE Ok(PyBool(FALSE))

\* -------------------------------------------------------- FormalTheory

\* The symmetry predicates a theory is built with: the default of the source,
\* lambda x, y: x == y, and one a caller supplies, lambda x, y: type(x) is type(y).
SymmetryChoices == {"default", "same_type"}

symmetry(choice, x, y) ==
  IF choice = "default" THEN PyEq(x, y) ELSE x.t = y.t

\* compare without its guard for the empty list: all() of no comparisons.
compare_NoEmptyGuard(choice, atoms) ==
  Ok(PyBool(\A i \in 2..Len(atoms) : symmetry(choice, atoms[1].value, atoms[i].value)))

compare(choice, atoms) ==
  IF atoms = <<>> THEN Ok(PyBool(FALSE))
  ELSE LET comparison == [i \in 1..(Len(atoms) - 1) |->
                            symmetry(choice, atoms[1].value, atoms[i + 1].value)]
       IN Ok(PyBool(\A i \in 1..Len(comparison) : comparison[i]))

\* A function object.
PyFunction(name) == [t |-> "function", name |-> name]

\* The keys of case_base: the strings of the code points U+22A4, U+22A5, 'a'.
Lit_top == <<8868>>

Lit_bottom == <<8869>>

Lit_a == <<97>>

\* if_else(a, x, y): x if a else y
if_else(cond, x, y) == IF cond THEN x ELSE y

\* self.if_else_a(x, y)
if_else_a(x, y) == if_else(TRUE, x, y)

\* f(x, y) for a function object f: the two lambdas of __post_init__, the
\* bound method if_else_a, and the selectors of a caller.
Call(f, x, y) ==
  CASE f.name = "lambda x, _: x" -> x
    [] f.name = "lambda _, y: y" -> y
    [] f.name = "if_else_a" -> if_else_a(x, y)
    [] f.name = "caller: lambda x, y: x" -> x
    [] f.name = "caller: lambda x, y: y" -> y

\* The constructor called without keyword arguments.
NoArgs == [given |-> {}]

\* The constructor called with case_base=d.
WithCaseBase(d) == [given |-> {"case_base"}, case_base |-> d]

\* The empty dict, as field(default_factory=dict) makes it.
EmptyDict == [k \in {} |-> PyNone]

\* FormalTheory.__post_init__: self.case_base = {...}, whatever it was.
FormalTheory__post_init__(self) ==
  [self EXCEPT !.case_base =
     (Lit_top :> PyFunction("lambda x, _: x"))
     @@ (Lit_bottom :> PyFunction("lambda _, y: y"))
     @@ (Lit_a :> PyFunction("if_else_a"))]

\* The generated __init__: case_base is the argument, or the default
\* factory's dict(); then __post_init__.
FormalTheory(kw) ==
  FormalTheory__post_init__(
    [t |-> "FormalTheory",
     case_base |-> IF "case_base" \in kw.given THEN kw.case_base ELSE EmptyDict])

\* theory.case_base[key](x, y): KeyError for a key the dict does not hold.
Select(self, key, x, y) ==
  IF key \notin DOMAIN self.case_base THEN Raise("KeyError")
  ELSE Ok(Call(self.case_base[key], x, y))

\* ---------------------------------------------------- SimpleTokenStack

\* A method's outcome on an instance: the exception or the return value, and
\* the instance as the call leaves it.
Returns(obj, self) == [exc |-> "none", ret |-> obj, self |-> self]

Raises(name, self) == [exc |-> name, ret |-> PyNone, self |-> self]

\* SimpleTokenStack(): self._stack = []
SimpleTokenStack == [t |-> "SimpleTokenStack", _stack |-> PyList(<<>>)]

\* self._stack.append(item)
push(self, item) ==
  Returns(PyNone, [self EXCEPT !._stack.items = Append(@, item)])

\* pop taking the oldest item, self._stack.pop(0).
pop_Oldest(self) ==
  IF self._stack.items = <<>> THEN Raises("IndexError", self)
  ELSE Returns(Head(self._stack.items),
               [self EXCEPT !._stack.items = Tail(@)])

\* if not self._stack: raise IndexError; return self._stack.pop()
pop(self) ==
  IF self._stack.items = <<>> THEN Raises("IndexError", self)
  ELSE Returns(self._stack.items[Len(self._stack.items)],
               [self EXCEPT !._stack.items = SubSeq(@, 1, Len(@) - 1)])

\* if not self._stack: raise IndexError; return self._stack[-1]
peek(self) ==
  IF self._stack.items = <<>> THEN Raises("IndexError", self)
  ELSE Returns(self._stack.items[Len(self._stack.items)], self)

\* len(self._stack)
__len__(self) == Returns(PyInt(Len(self._stack.items)), self)

\* ------------------------------------------- ThreadSafeContextManager

\* ThreadSafeContextManager(): self.lock = threading.Lock(), unlocked.
ThreadSafeContextManager == [t |-> "ThreadSafeContextManager", lock |-> FALSE]

\* self.lock.acquire() returns only once the lock is unlocked.
CanAcquire(self) == ~self.lock

\* __enter__ from the return of self.lock.acquire(): the lock is locked, a
\* line is printed, self is returned.
__enter__(self) == Returns(self, [self EXCEPT !.lock = TRUE])

\* __exit__ releasing the lock after the try block and not in a finally
\* clause of it, the block being left by the exception.
__exit__NoFinally(self, exc_type) ==
  IF exc_type # "none" THEN Returns(PyNone, self)
  ELSE IF ~self.lock THEN Raises("RuntimeError", self)
  ELSE Returns(PyNone, [self EXCEPT !.lock = FALSE])

\* __exit__: a line is printed when exc_type is not None; finally the lock is
\* released and a line is printed; the method returns None.  Releasing an
\* unlocked threading.Lock raises RuntimeError.
__exit__(self, exc_type) ==
  IF ~self.lock THEN Raises("RuntimeError", self)
  ELSE Returns(PyNone, [self EXCEPT !.lock = FALSE])

\* bool(obj) for what __exit__ returns.
Truthy(obj) ==
  CASE obj.t = "NoneType" -> FALSE
    [] obj.t = "bool" -> obj.b
    [] OTHER -> TRUE

\* How a with statement ends: "raised" when the block raised and __exit__
\* did not return a true value, or when __exit__ itself raised; "returned"
\* otherwise.
WithEnds(exc_type, r) ==
  IF r.exc # "none" THEN "raised"
  ELSE IF exc_type # "none" /\ ~Truthy(r.ret) THEN "raised"
  ELSE "returned"

\* ------------------------------------------------------------ inputs

Threads == 1..NumThreads

\* What the block of a with statement raises: nothing, or an exception.
BlockExceptions == {"none", "Exception"}

\* The items pushed: a string, and None, which pop and peek then return.
Tokens == {PyStr(<<97>>), PyNone}

\* The keyword arguments a FormalTheory is constructed with: none; an empty
\* case_base; a caller's registry under the same three keys, with the
\* selections of the first two exchanged; a caller's registry with the same
\* selections as the source's; a caller's registry under one other key.
ConstructorArgs ==
  { NoArgs,
    WithCaseBase(EmptyDict),
    WithCaseBase((Lit_top :> PyFunction("caller: lambda x, y: y"))
                 @@ (Lit_bottom :> PyFunction("caller: lambda x, y: x"))
                 @@ (Lit_a :> PyFunction("caller: lambda x, y: x"))),
    WithCaseBase((Lit_top :> PyFunction("caller: lambda x, y: x"))
                 @@ (Lit_bottom :> PyFunction("caller: lambda x, y: y"))
                 @@ (Lit_a :> PyFunction("caller: lambda x, y: x"))),
    WithCaseBase(<<98>> :> PyFunction("caller: lambda x, y: x")) }

\* The keys looked up in case_base: its three, and one it does not have.
LookupKeys == {Lit_top, Lit_bottom, Lit_a, <<98>>}

\* The raw values atoms are constructed from: every kind, None, and lists and
\* dictionaries nested to depth 4.
SampleValues ==
  { PyInt(0), PyInt(5), PyInt(6),
    PyFloat(0, 1), PyFloat(3, 2),
    PyBool(TRUE), PyBool(FALSE),
    PyStr(<<97>>), PyStr(<<233>>),
    PyNone,
    PyList(<<>>), PyList(<<PyFloat(3, 2)>>),
    PyList(<<PyFloat(3, 2), PyList(<<PyFloat(0, 1)>>)>>),
    PyList(<<PyList(<<PyList(<<PyList(<<PyFloat(3, 2)>>)>>)>>)>>),
    PyDict(<<>>), PyDict(<<<<PyStr(<<97>>), PyInt(5)>>>>),
    PyList(<<PyDict(<<<<PyStr(<<97>>), PyList(<<PyInt(5), PyInt(6)>>)>>>>)>>) }

TagLits ==
  {Lit_string, Lit_integer, Lit_float, Lit_boolean, Lit_list, Lit_dictionary}

\* A header declaring tag length h, then the bytes given.
Framed(h, rest) == BE32(h) \o rest

\* Buffers a caller hands to decode besides the encodings of the atoms: each
\* kind's tag with an empty, a one-byte and an eight-byte payload; a header
\* declaring more tag bytes than follow; a buffer shorter than a header; a
\* tag that is no kind; ill-formed UTF-8; a list holding one framed element.
CraftedBuffers ==
  {Framed(Len(L), L \o p) : L \in TagLits \ {Lit_float},
                             p \in {<<>>, <<1>>, PackQ(5).ret.s}}
  \cup {Framed(Len(Lit_float), Lit_float \o p) :
          p \in {<<>>, <<1>>, PackDouble(PyFloat(3, 2)).ret.s}}
  \cup {Framed(h, L) : h \in {0, 4, MaxHeader}, L \in {<<97, 98, 99>>, Lit_list}}
  \cup {<<>>, <<0, 0>>}
  \cup {Framed(3, Lit_int \o PackQ(5).ret.s)}
  \cup {Framed(6, Lit_string \o <<255>>)}
  \cup {Framed(4, Lit_list \o Framed(5, Lit_float \o PackDouble(PyFloat(3, 2)).ret.s))}

\* The encodings of the atoms at hand, where encode returns.
Encodings(atoms) == {encode(x).ret.s : x \in {y \in atoms : encode(y).exc = "none"}}

\* The lists of atoms handed to compare: every sequence over a and b.
AtomLists(x, y) == UNION {[1..n -> {x, y}] : n \in 0..MaxCompareLen}

Outcome(op, r) ==
  [op |-> op, exc |-> r.exc, ret |-> r.ret, data |-> <<>>, atoms |-> <<>>,
   symmetry |-> "none"]

\* ------------------------------------------------------------ actions

\* No FormalTheory is under construction.
TheoryIdle == kwargs = NoArgs /\ theory = PyNone

\* A SimpleTokenStack as constructed, with no call made on it.
StackNew == token_space = SimpleTokenStack /\ calls = <<>>

\* A ThreadSafeContextManager as constructed, and no thread using it.
ManagerIdle ==
  /\ manager = ThreadSafeContextManager
  /\ threads = [t \in Threads |-> [pc |-> "outside", exc_type |-> "none",
                                    ended |-> "none"]]
  /\ files = 0

\* The atoms not in use.
AtomsIdle ==
  /\ a = AtomDataclass(PyNone)
  /\ b = AtomDataclass(PyNone)
  /\ result = Outcome("init", Ok(PyNone))

Init ==
  /\ a \in {AtomDataclass(v) : v \in SampleValues}
  /\ b \in {AtomDataclass(v) : v \in SampleValues}
  /\ result = Outcome("init", Ok(PyNone))
  /\ TheoryIdle
  /\ StackNew
  /\ ManagerIdle

\* a.encode()
Encode ==
  /\ result' = Outcome("encode", encode(a))
  /\ UNCHANGED <<a, b, nonAtomVars>>

\* a.decode(data)
Decode ==
  \E data \in CraftedBuffers \cup Encodings({a, b}) :
    LET r == decode(a, data)
    IN /\ a' = r.self
       /\ result' = [Outcome("decode", r) EXCEPT !.data = data]
       /\ UNCHANGED <<b, nonAtomVars>>

\* a + b
Add ==
  /\ result' = Outcome("add", __add__(a, b))
  /\ UNCHANGED <<a, b, nonAtomVars>>

\* a - b
Sub ==
  /\ result' = Outcome("sub", __sub__(a, b))
  /\ UNCHANGED <<a, b, nonAtomVars>>

\* a * b
Mul ==
  /\ result' = Outcome("mul", __mul__(a, b))
  /\ UNCHANGED <<a, b, nonAtomVars>>

\* a / b
TrueDiv ==
  /\ result' = Outcome("truediv", __truediv__(a, b))
  /\ UNCHANGED <<a, b, nonAtomVars>>

\* a == b
Eq ==
  /\ result' = Outcome("eq", __eq__(a, b))
  /\ UNCHANGED <<a, b, nonAtomVars>>

\* a < b
Lt ==
  /\ result' = Outcome("lt", __lt__(a, b))
  /\ UNCHANGED <<a, b, nonAtomVars>>

\* a <= b
Le ==
  /\ result' = Outcome("le", __le__(a, b))
  /\ UNCHANGED <<a, b, nonAtomVars>>

\* a > b
Gt ==
  /\ result' = Outcome("gt", __gt__(a, b))
  /\ UNCHANGED <<a, b, nonAtomVars>>

\* a >= b
Ge ==
  /\ result' = Outcome("ge", __ge__(a, b))
  /\ UNCHANGED <<a, b, nonAtomVars>>

\* FormalTheory(symmetry=choice).compare(atoms)
Compare ==
  \E choice \in SymmetryChoices, atoms \in AtomLists(a, b) :
    /\ result' = [Outcome("compare", compare(choice, atoms))
                    EXCEPT !.atoms = atoms, !.symmetry = choice]
    /\ UNCHANGED <<a, b, nonAtomVars>>

Next ==
  \/ Encode
  \/ Decode
  \/ Add
  \/ Sub
  \/ Mul
  \/ TrueDiv
  \/ Eq
  \/ Lt
  \/ Le
  \/ Gt
  \/ Ge
  \/ Compare

Spec == Init /\ [][Next]_vars

\* --------------------------------------- constructing a FormalTheory

\* The keyword arguments of the construction and the values x, y the
\* selectors are called with (those of a and b) are drawn; nothing is built.
InitTheory ==
  /\ a \in {AtomDataclass(v) : v \in SampleValues}
  /\ b \in {AtomDataclass(v) : v \in SampleValues}
  /\ kwargs \in ConstructorArgs
  /\ theory = PyNone
  /\ result = Outcome("init", Ok(PyNone))
  /\ StackNew
  /\ ManagerIdle

\* theory = FormalTheory(**kwargs)
Construct ==
  /\ theory = PyNone
  /\ theory' = FormalTheory(kwargs)
  /\ result' = Outcome("FormalTheory", Ok(theory'))
  /\ UNCHANGED <<a, b, kwargs, stackVars, lockVars>>

\* theory.case_base[key](a.value, b.value)
SelectCall ==
  /\ theory # PyNone
  /\ \E key \in LookupKeys :
       result' = [Outcome("case_base", Select(theory, key, a.value, b.value))
                    EXCEPT !.data = key]
  /\ UNCHANGED <<a, b, kwargs, theory, stackVars, lockVars>>

NextTheory ==
  \/ Construct
  \/ SelectCall

SpecTheory == InitTheory /\ [][NextTheory]_vars

\* ------------------------------------------- using a SimpleTokenStack

InitStack ==
  /\ StackNew
  /\ AtomsIdle
  /\ TheoryIdle
  /\ ManagerIdle

\* The call recorded: the method, its argument, and what it raised or returned.
Called(op, item, r) == [op |-> op, item |-> item, exc |-> r.exc, ret |-> r.ret]

\* token_space.push(item)
Push ==
  /\ Len(calls) < MaxCalls
  /\ \E item \in Tokens :
       LET r == push(token_space, item)
       IN /\ token_space' = r.self
          /\ calls' = Append(calls, Called("push", item, r))
  /\ UNCHANGED <<atomVars, theoryVars, lockVars>>

\* token_space.pop()
Pop ==
  /\ Len(calls) < MaxCalls
  /\ LET r == pop(token_space)
     IN /\ token_space' = r.self
        /\ calls' = Append(calls, Called("pop", PyNone, r))
  /\ UNCHANGED <<atomVars, theoryVars, lockVars>>

\* token_space.peek()
Peek ==
  /\ Len(calls) < MaxCalls
  /\ LET r == peek(token_space)
     IN /\ token_space' = r.self
        /\ calls' = Append(calls, Called("peek", PyNone, r))
  /\ UNCHANGED <<atomVars, theoryVars, lockVars>>

\* len(token_space)
StackLen ==
  /\ Len(calls) < MaxCalls
  /\ LET r == __len__(token_space)
     IN /\ token_space' = r.self
        /\ calls' = Append(calls, Called("len", PyNone, r))
  /\ UNCHANGED <<atomVars, theoryVars, lockVars>>

NextStack ==
  \/ Push
  \/ Pop
  \/ Peek
  \/ StackLen

SpecStack == InitStack /\ [][NextStack]_vars

\* ------------------------- threads sharing a ThreadSafeContextManager

\* One manager, as constructed; every thread outside process_file; some
\* number of calls of process_file to be made.
InitLock ==
  /\ manager = ThreadSafeContextManager
  /\ threads = [t \in Threads |-> [pc |-> "outside", exc_type |-> "none",
                                    ended |-> "none"]]
  /\ files \in 1..MaxFiles
  /\ AtomsIdle
  /\ TheoryIdle
  /\ StackNew

\* Thread t calls process_file(filepath, manager): the with statement calls
\* manager.__enter__(), which calls self.lock.acquire().
CallProcessFile(t) ==
  /\ threads[t].pc = "outside"
  /\ files > 0
  /\ files' = files - 1
  /\ threads' = [threads EXCEPT ![t].pc = "__enter__", ![t].ended = "none"]
  /\ UNCHANGED <<manager, atomVars, theoryVars, stackVars>>

\* self.lock.acquire() returns in thread t, and __enter__ after it: t is in
\* the block of the with statement.
Enter(t) ==
  /\ threads[t].pc = "__enter__"
  /\ CanAcquire(manager)
  /\ manager' = __enter__(manager).self
  /\ threads' = [threads EXCEPT ![t].pc = "block"]
  /\ UNCHANGED <<files, atomVars, theoryVars, stackVars>>

\* The block of thread t ends, normally or by an exception, and the with
\* statement calls manager.__exit__.
BlockEnds(t) ==
  /\ threads[t].pc = "block"
  /\ \E e \in BlockExceptions :
       threads' = [threads EXCEPT ![t].pc = "__exit__", ![t].exc_type = e]
  /\ UNCHANGED <<manager, files, atomVars, theoryVars, stackVars>>

\* manager.__exit__(exc_type, exc_value, traceback) in thread t, and the end
\* of the with statement and of process_file.
Exit(t) ==
  /\ threads[t].pc = "__exit__"
  /\ LET r == __exit__(manager, threads[t].exc_type)
     IN /\ manager' = r.self
        /\ threads' = [threads EXCEPT
                         ![t].pc = "outside",
                         ![t].exc_type = "none",
                         ![t].ended = WithEnds(threads[t].exc_type, r)]
  /\ UNCHANGED <<files, atomVars, theoryVars, stackVars>>

NextLock ==
  \E t \in Threads :
    \/ CallProcessFile(t)
    \/ Enter(t)
    \/ BlockEnds(t)
    \/ Exit(t)

SpecLock == InitLock /\ [][NextLock]_vars

\* A thread that can run does run: the block of process_file ends, __exit__
\* returns, and acquire returns once the lock stays unlocked.
FairLock ==
  \A t \in Threads :
    /\ WF_vars(Enter(t))
    /\ WF_vars(BlockEnds(t))
    /\ WF_vars(Exit(t))

SpecLockFair == SpecLock /\ FairLock

\* ------------------------------------------------------------- claims

\* The kind the fixed mapping of the specification gives a raw value: text to
\* string, boolean to boolean, whole number to integer, real number to float,
\* ordered sequence to list, key-value mapping to dictionary.
KindOf(v) ==
  CASE v.t = "str" -> Lit_string
    [] v.t = "bool" -> Lit_boolean
    [] v.t = "int" -> Lit_integer
    [] v.t = "float" -> Lit_float
    [] v.t = "list" -> Lit_list
    [] v.t = "dict" -> Lit_dictionary
    [] OTHER -> <<>>

\* A value of one of the six kinds, its elements, keys and values included.
RECURSIVE Constructible(_)
Constructible(v) ==
  CASE v.t \in {"str", "int", "float", "bool"} -> TRUE
    [] v.t = "list" -> \A i \in 1..Len(v.items) : Constructible(v.items[i])
    [] v.t = "dict" -> \A i \in 1..Len(v.pairs) :
                         Constructible(v.pairs[i][1]) /\ Constructible(v.pairs[i][2])
    [] OTHER -> FALSE

\* C1: round trip.  Encoding a constructible atom does not fail, and decoding
\* the bytes encode returned for b into a does not fail and leaves a equal to
\* b, in value and in kind.
C1_RoundTrip ==
  /\ (result.op = "encode" /\ Constructible(a.value)) => result.exc = "none"
  /\ ( /\ result.op = "decode"
       /\ Constructible(b.value)
       /\ encode(b).exc = "none"
       /\ result.data = encode(b).ret.s )
     => /\ result.exc = "none"
        /\ PyEq(a.value, b.value)
        /\ a.data_type = b.data_type

\* C2: the bytes encode returns start with the 4-byte big-endian length of the
\* UTF-8 type tag, then the tag, one of the six kind names, then the payload.
C2_HeaderIsTagLength ==
  (result.op = "encode" /\ result.exc = "none")
  => \E L \in TagLits :
       LET tag == Utf8Bytes(L)
           bs == result.ret.s
       IN /\ Len(bs) >= 4 + Len(tag)
          /\ SubSeq(bs, 1, 4) = BE32(Len(tag))
          /\ SubSeq(bs, 5, 4 + Len(tag)) = tag

\* The full encodings of the values given, back to back; <<-1>> once one of
\* them cannot be encoded.
RECURSIVE FullEncodings(_)
FullEncodings(vs) ==
  IF vs = <<>> THEN <<>>
  ELSE LET e == encode(AtomDataclass(Head(vs)))
           r == FullEncodings(Tail(vs))
       IN IF e.exc # "none" \/ r = <<-1>> THEN <<-1>> ELSE e.ret.s \o r

\* The keys and values of a dictionary in insertion order: k1, v1, k2, v2, ...
RECURSIVE Flatten(_)
Flatten(pairs) ==
  IF pairs = <<>> THEN <<>> ELSE <<Head(pairs)[1], Head(pairs)[2]>> \o Flatten(Tail(pairs))

\* C3: the payload of an encoded list is the concatenation of its elements'
\* full encodings (header, tag, payload each), and the payload of an encoded
\* dictionary that of its keys' and values' full encodings in insertion order.
C3_ContainerPayload ==
  (result.op = "encode" /\ result.exc = "none" /\ a.value.t \in {"list", "dict"})
  => LET bs == result.ret.s
         payload == SubSeq(bs, 5 + Len(Utf8Bytes(a.data_type)), Len(bs))
     IN payload = FullEncodings(IF a.value.t = "list" THEN a.value.items
                                ELSE Flatten(a.value.pairs))

\* The atoms of a state: the two operands and an atom the last call returned.
AtomsOf ==
  {a, b} \cup (IF result.ret.t = "AtomDataclass" THEN {result.ret} ELSE {})

\* C4: every atom's kind is one of the six kind names, and the one the fixed
\* mapping gives its value.
C4_KindMatchesValue ==
  \A x \in AtomsOf : x.data_type \in TagLits /\ x.data_type = KindOf(x.value)

\* A buffer the specification calls malformed: shorter than its header, or
\* than the header and the tag length it declares; a tag that is none of the
\* six kinds; an integer or float payload under 8 bytes, a boolean payload
\* under 1.
IsMalformed(data) ==
  \/ Len(data) < 4
  \/ LET h == UnpackU32(SubSeq(data, 1, 4)).ret.n
         tag == Utf8Decode(Slice(data, 4, 4 + h))
         payload == Slice(data, 4 + h, Len(data))
     IN \/ Len(data) < 4 + h
        \/ tag.exc # "none"
        \/ tag.ret.s \notin TagLits
        \/ tag.ret.s \in {Lit_integer, Lit_float} /\ Len(payload) < 8
        \/ tag.ret.s = Lit_boolean /\ Len(payload) < 1

\* The exceptions with which decode rejects the bytes it reads: struct.error
\* from struct.unpack, ValueError for an unknown tag, and UnicodeDecodeError (a
\* ValueError) from bytes.decode.
IsMalformedEncodingError(exc) ==
  exc = "struct.error" \/ "ValueError" \in ExceptionClasses(exc)

\* C5: decoding a malformed buffer is rejected as malformed, and leaves the
\* atom's value and kind as they were before the call.
C5_MalformedRejected ==
  [][(result'.op = "decode" /\ IsMalformed(result'.data))
     => (IsMalformedEncodingError(result'.exc) /\ a' = a)]_vars

\* C6: atoms are immutable after construction: no operation, returning or
\* raising, changes the value or the kind of an atom.
C6_Immutable == [][a' = a /\ b' = b]_vars

\* A decode that read a value other than the atom's own from its buffer and
\* reached the assignment, with the atom still as it was constructed.
C6_Witness ==
  /\ result.op = "decode"
  /\ result.exc = "FrozenInstanceError"
  /\ DecodeValue(result.data).exc = "none"
  /\ ~PyEq(DecodeValue(result.data).ret, a.value)
  /\ a = AtomDataclass(a.value)

\* C7: compare returns true exactly when the list is not empty and the
\* symmetry predicate holds of the first atom's value and every later one's:
\* false for the empty list, true for one atom, true for [Atom(5), Atom(5)]
\* and false for [Atom(5), Atom(6)] under the default predicate.
C7_Compare ==
  result.op = "compare"
  => LET atoms == result.atoms
         holds == /\ atoms # <<>>
                  /\ \A i \in 2..Len(atoms) :
                       symmetry(result.symmetry, atoms[1].value, atoms[i].value)
         five == AtomDataclass(PyInt(5))
         six == AtomDataclass(PyInt(6))
     IN /\ result.exc = "none"
        /\ result.ret = PyBool(holds)
        /\ atoms = <<>> => result.ret = PyBool(FALSE)
        /\ Len(atoms) = 1 => result.ret = PyBool(TRUE)
        /\ (result.symmetry = "default" /\ atoms = <<five, five>>)
             => result.ret = PyBool(TRUE)
        /\ (result.symmetry = "default" /\ atoms = <<five, six>>)
             => result.ret = PyBool(FALSE)

\* compare has been called on [Atom(5), Atom(6)] under the default predicate
\* and answered false.
C7_Witness ==
  /\ result.op = "compare"
  /\ result.symmetry = "default"
  /\ result.atoms = <<AtomDataclass(PyInt(5)), AtomDataclass(PyInt(6))>>
  /\ result.ret = PyBool(FALSE)

\* C8: an ordering operator returns a bool only for two atoms of the same
\* scalar kind; for atoms of differing kinds, or with a list or a dictionary
\* among them, it raises.
C8_OrderingSameScalarKind ==
  result.op \in {"lt", "le", "gt", "ge"}
  => IF /\ KindOf(a.value) = KindOf(b.value)
        /\ KindOf(a.value) \in {Lit_string, Lit_integer, Lit_float, Lit_boolean}
     THEN result.exc = "none" /\ result.ret.t = "bool"
     ELSE result.exc # "none"

\* C9: an arithmetic operator with a list or a dictionary among its operands
\* raises a type error and returns no atom; when it returns, it returns a new
\* atom, and the operands are as before.
C9_ArithmeticScalarOnly ==
  [][result'.op \in {"add", "sub", "mul", "truediv"}
     => /\ ({a.value.t, b.value.t} \cap {"list", "dict"} # {}
              => "TypeError" \in ExceptionClasses(result'.exc))
        /\ (result'.exc = "none" => result'.ret = AtomDataclass(result'.ret.value))
        /\ a' = a /\ b' = b]_vars

\* C10: an integer atom divided by an integer atom whose value is 0 raises an
\* ArithmeticError and returns no atom.
C10_DivisionByZero ==
  ( /\ result.op = "truediv"
    /\ a.value.t = "int"
    /\ b.value.t = "int"
    /\ b.value.n = 0 )
  => /\ "ArithmeticError" \in ExceptionClasses(result.exc)
     /\ result.ret = PyNone

\* Atom(5) / Atom(0) has been evaluated and raised ZeroDivisionError.
C10_Witness ==
  /\ result.op = "truediv"
  /\ a = AtomDataclass(PyInt(5))
  /\ b = AtomDataclass(PyInt(0))
  /\ result.exc = "ZeroDivisionError"

\* C11: a value that is none of the six kinds, None for one, is rejected at
\* construction or by encode at the latest, so that encode never returns bytes
\* for it; and encode of an atom whose value is of the six kinds throughout is
\* not rejected with the error for an unsupported type, the ValueError of
\* _encode_data's last branch.
C11_UnsupportedRejected ==
  result.op = "encode"
  => /\ KindOf(a.value) = <<>> => result.exc # "none"
     /\ Constructible(a.value) => result.exc # "ValueError"

\* C12: once a FormalTheory is constructed, with a case_base given or not,
\* its case_base has exactly the three keys U+22A4, U+22A5 and 'a'; the
\* selector under the first returns its first argument, the one under the
\* second its second, the one under 'a' its first; and a case_base the caller
\* gave to the constructor is the case_base of the instance.
C12_CaseBase ==
  theory # PyNone
  => /\ DOMAIN theory.case_base = {Lit_top, Lit_bottom, Lit_a}
     /\ \A x, y \in {a.value, b.value} :
          /\ Call(theory.case_base[Lit_top], x, y) = x
          /\ Call(theory.case_base[Lit_bottom], x, y) = y
          /\ Call(theory.case_base[Lit_a], x, y) = x
     /\ "case_base" \in kwargs.given => theory.case_base = kwargs.case_base

\* The items pushed by the calls given and not popped since, in push order,
\* each pop taking the most recently pushed of those remaining.
RECURSIVE Remaining(_)
Remaining(cs) ==
  IF cs = <<>> THEN <<>>
  ELSE LET before == Remaining(SubSeq(cs, 1, Len(cs) - 1))
           c == cs[Len(cs)]
       IN IF c.op = "push" THEN Append(before, c.item)
          ELSE IF c.op = "pop" /\ before # <<>>
               THEN SubSeq(before, 1, Len(before) - 1)
               ELSE before

\* The number of calls of the method op among those given that did not raise.
Returned(cs, op) ==
  Cardinality({i \in 1..Len(cs) : cs[i].op = op /\ cs[i].exc = "none"})

\* C13: SimpleTokenStack is a LIFO stack under every sequence of push, pop,
\* peek and len calls.  Its content is the pushed items not yet popped, in push
\* order; pop removes and returns the most recently pushed remaining item;
\* peek returns that item and leaves the stack as it was; len is the number of
\* pushes less the number of pops that returned; pop and peek on an empty
\* stack raise IndexError and leave it empty.
C13_Lifo ==
  /\ token_space._stack.items = Remaining(calls)
  /\ calls # <<>>
     => LET c == calls[Len(calls)]
            before == Remaining(SubSeq(calls, 1, Len(calls) - 1))
            now == token_space._stack.items
        IN /\ c.op = "push" => c.exc = "none" /\ now = Append(before, c.item)
           /\ (c.op = "pop" /\ before # <<>>)
              => /\ c.exc = "none"
                 /\ c.ret = before[Len(before)]
                 /\ now = SubSeq(before, 1, Len(before) - 1)
           /\ (c.op = "peek" /\ before # <<>>)
              => c.exc = "none" /\ c.ret = before[Len(before)] /\ now = before
           /\ (c.op \in {"pop", "peek"} /\ before = <<>>)
              => c.exc = "IndexError" /\ now = <<>>
           /\ c.op = "len"
              => /\ c.exc = "none"
                 /\ c.ret = PyInt(Returned(calls, "push") - Returned(calls, "pop"))
                 /\ now = before

\* 'a' and None were pushed, two pops returned None and then 'a', and a third
\* pop raised IndexError on the stack left empty.
C13_Witness ==
  /\ Len(calls) = 5
  /\ [i \in 1..5 |-> calls[i].op] = <<"push", "push", "pop", "pop", "pop">>
  /\ calls[1].item = PyStr(<<97>>)
  /\ calls[2].item = PyNone
  /\ calls[3].exc = "none" /\ calls[3].ret = PyNone
  /\ calls[4].exc = "none" /\ calls[4].ret = PyStr(<<97>>)
  /\ calls[5].exc = "IndexError"
  /\ token_space._stack.items = <<>>

\* The threads between the return of __enter__ and the end of __exit__.
Holders == {t \in Threads : threads[t].pc \in {"block", "__exit__"}}

\* C14: of the threads sharing one ThreadSafeContextManager at most one is in
\* its with block at a time; the lock is locked exactly while some thread is
\* between __enter__ and the end of __exit__; __exit__ releases the lock
\* whether the block ended normally or by an exception, and the exception is
\* not suppressed; and a thread waiting in __enter__ gets into its block.
C14_MutualExclusion ==
  /\ [](Cardinality(Holders) <= 1)
  /\ [](manager.lock <=> Holders # {})
  /\ [][\A t \in Threads :
          (threads[t].pc = "__exit__" /\ threads'[t].pc = "outside")
          => /\ ~manager'.lock
             /\ threads'[t].ended =
                  (IF threads[t].exc_type = "none" THEN "returned" ELSE "raised")]_vars
  /\ \A t \in Threads : (threads[t].pc = "__enter__") ~> (threads[t].pc = "block")

\* Thread 1 left its with statement by the exception its block raised, thread
\* 2 is in its block after that, and thread 3 waits in __enter__.
C14_Witness ==
  /\ threads[1].pc = "outside" /\ threads[1].ended = "raised"
  /\ threads[2].pc = "block"
  /\ threads[3].pc = "__enter__"
  /\ manager.lock

=============================================================================
